---------------------------- MODULE Spec2Model ----------------------------
(***************************************************************************)
(* A model of watch_scripts (src/src/main.rs): the on_action handler of    *)
(* Runner::run, the chain task it spawns, and get_command.                 *)
(*                                                                         *)
(* Conventions.                                                            *)
(*  - A path is the sequence of its Normal components below the root; the  *)
(*    root "/" is the empty sequence.  A component is the sequence of its  *)
(*    characters, so that starts_with(".") and ends_with("~") are computed *)
(*    on the characters as the code computes them.                         *)
(*  - An Option is a record with a tag: None, or Some(v).                  *)
(*  - The filesystem (is_executable, fs::canonicalize) is a fixture over a *)
(*    small universe of paths that has one path for every outcome the code *)
(*    distinguishes; std::env::set_current_dir succeeds or fails           *)
(*    nondeterministically.                                                *)
(*  - A call on a watchexec Job handle (start, delete_now) takes effect at *)
(*    the call.  The handler runs on the action worker and the closure     *)
(*    given to job.run on the job's task, so their steps interleave.       *)
(***************************************************************************)
EXTENDS Naturals, Sequences, FiniteSets, TLC

VARIABLES
    raw_then_path,  \* Payload.raw_then_path: None or Some(canonical path)
    events,         \* action.events of the latest batch
    interrupt,      \* the latest batch carries Signal::Interrupt
    details,        \* result of get_command in the latest tick that ran it
    cwd,            \* the process working directory
    jobs,           \* every job created so far, indexed by its id
    tasks,          \* the chain tasks, keyed by the id of their primary job
    tick,           \* position of the on_action handler within a tick
    control,        \* "Continue", "Quit" (action.quit()) or "Panicked"
    nticks,         \* number of batches delivered so far
    target_tick     \* number of the latest batch that yielded a target

vars == <<raw_then_path, events, interrupt, details, cwd, jobs, tasks, tick,
          control, nticks, target_tick>>

---------------------------------------------------------------------------
(* Bounds *)

\* total number of tags (one kind slot per event, plus its path tags) in a
\* batch assembled for get_command
MaxTags == 4

\* number of batches delivered to on_action
MaxTicks == 2

---------------------------------------------------------------------------
(* Option values *)

None == [tag |-> "None"]

Some(v) == [tag |-> "Some", val |-> v]

IsSome(o) == o.tag = "Some"

---------------------------------------------------------------------------
(* Paths *)

\* Path::parent: the path without its last component; None for the root
parent(p) == IF Len(p) = 0 THEN None ELSE Some(SubSeq(p, 1, Len(p) - 1))

\* Path::file_name: the last component; None for the root
file_name(p) == IF Len(p) = 0 THEN None ELSE Some(p[Len(p)])

starts_with(s, c) == Len(s) > 0 /\ s[1] = c

ends_with(s, c) == Len(s) > 0 /\ s[Len(s)] = c

\* format!("./{}", name)
DotSlash(name) == <<".", "/">> \o name

(* The universe of paths. *)
InitialDir == << <<"w">> >>

PathA == << <<"w">>, <<"a">> >>

PathB == << <<"w">>, <<"d">>, <<"b">> >>

ThenPath == << <<"w">>, <<"s">>, <<"t">> >>

\* a symlink to ThenPath
PathLink == << <<"w">>, <<"l">> >>

\* below a hidden directory
PathHidden == << <<"w">>, <<".", "g">>, <<"a">> >>

\* an editor backup file
PathBackup == << <<"w">>, <<"a", "~">> >>

\* not executable
PathNoExec == << <<"w">>, <<"n">> >>

\* the permission check fails
PathExecErr == << <<"w">>, <<"e">> >>

\* the root directory: executable, no file name, no parent
PathRoot == << >>

\* executable at the check, gone when canonicalized
PathGone == << <<"w">>, <<"v">> >>

Paths == {PathA, PathB, ThenPath, PathLink, PathHidden, PathBackup,
          PathNoExec, PathExecErr, PathRoot, PathGone}

\* permissions::is_executable(path): "Ok(true)", "Ok(false)" or "Err"
is_executable(p) ==
    IF p = PathNoExec THEN "Ok(false)"
    ELSE IF p = PathExecErr THEN "Err"
    ELSE "Ok(true)"

\* fs::canonicalize(path): Some(canonical path), or None for Err
canonicalize(p) ==
    IF p = PathGone THEN None
    ELSE IF p = PathLink THEN Some(ThenPath)
    ELSE Some(p)

---------------------------------------------------------------------------
(* Events *)

\* FileEventKind values, as the nesting the code matches on
KindContent == <<"Modify", "Data", "Content">>

KindDataAny == <<"Modify", "Data", "Any">>

KindMetadata == <<"Modify", "Metadata">>

KindRename == <<"Modify", "Name">>

KindCreate == <<"Create">>

Kinds == {KindContent, KindDataAny, KindMetadata, KindRename, KindCreate}

\* An event: its FileEventKind tag (None when it has none) and the paths of
\* its Path tags, in tag order.
Event(k, ps) == [kind |-> k, paths |-> ps]

KindOpts == {None} \cup {Some(k) : k \in Kinds}

---------------------------------------------------------------------------
(* get_command *)

\* a filter that lets every Modify kind through
HasModifyKind(event) ==
    IsSome(event.kind) /\ event.kind.val[1] = "Modify"

\* the closure of the first filter: some tag of the event is
\* FileEventKind::Modify(ModifyKind::Data(DataChange::Content))
HasContentChange(event) ==
    /\ IsSome(event.kind)
    /\ LET kind == event.kind.val
       IN  /\ kind[1] = "Modify"
           /\ Len(kind) >= 2 /\ kind[2] = "Data"
           /\ Len(kind) >= 3 /\ kind[3] = "Content"

\* some Normal component of the path starts with "."
HasHiddenComponent(path) ==
    \E i \in 1..Len(path) : starts_with(path[i], ".")

\* the file name, when there is one, ends with "~"
IsBackupName(path) ==
    IsSome(file_name(path)) /\ ends_with(file_name(path).val, "~")

\* the closure of find_map for one Path tag
PathCheck(path) ==
    IF is_executable(path) # "Ok(true)" THEN None
    ELSE IF HasHiddenComponent(path) THEN None
    ELSE IF IsBackupName(path) THEN None
    ELSE Some(path)

\* event.tags.iter().find_map(..): the first Path tag the closure accepts
RECURSIVE find_map(_)
find_map(paths) ==
    IF paths = << >> THEN None
    ELSE IF IsSome(PathCheck(Head(paths))) THEN PathCheck(Head(paths))
    ELSE find_map(Tail(paths))

\* .filter(..).filter_map(..): the accepted path of every content-change
\* event that has one, in event order
RECURSIVE filter_map(_)
filter_map(evs) ==
    IF evs = << >> THEN << >>
    ELSE LET event == Head(evs)
             found == IF HasContentChange(event) THEN find_map(event.paths)
                      ELSE None
         IN  IF IsSome(found) THEN <<found.val>> \o filter_map(Tail(evs))
             ELSE filter_map(Tail(evs))

\* .last() in place of .nth(0)
nth_last(s) == IF s = << >> THEN None ELSE Some(s[Len(s)])

\* .nth(0)
nth0(s) == IF s = << >> THEN None ELSE Some(s[1])

\* the iterator chain of get_command: the path it goes on with, if any
select_path(evs) == nth0(filter_map(evs))

Panic == [tag |-> "Panic"]

\* the comparison with the canonical path left out
run_then_any(then_path, full_path) == IsSome(then_path)

\* run_then: a then path is given and differs from the canonical path
run_then(then_path, full_path) ==
    IF IsSome(then_path) THEN then_path.val # full_path ELSE FALSE

\* get_command(events, then_path): None, Some((cd_to, command, run_then)),
\* or Panic when fs::canonicalize(..).unwrap() panics
get_command(evs, then_path) ==
    LET sel == select_path(evs)
    IN  IF ~IsSome(sel) THEN None
        ELSE LET p == sel.val
             IN  IF ~IsSome(canonicalize(p)) THEN Panic
                 ELSE IF ~IsSome(file_name(p)) THEN None
                 ELSE Some([cd_to |-> parent(p),
                            command |-> DotSlash(file_name(p).val),
                            run_then |-> run_then(then_path,
                                                  canonicalize(p).val)])

---------------------------------------------------------------------------
(* Payload *)

\* Payload.initial_dir
initial_dir == InitialDir

\* Payload::then_command: "./<file name of the then path>"
then_command(then_path) ==
    IF IsSome(then_path) THEN Some(DotSlash(file_name(then_path.val).val))
    ELSE None

\* Payload::then_job: the command of the then job, when a then path is given
then_job(then_path) == then_command(then_path)

\* the directory of the second set_current_dir of Payload::then_cd
then_parent(then_path) == parent(then_path.val)

---------------------------------------------------------------------------
(* Jobs: the handles of watchexec::job::Job *)

\* action.create_job(command): a new job, not started
NewJob(kind, command, path, primary, n) ==
    [kind |-> kind, command |-> command, state |-> "Pending",
     status |-> "None", gone |-> FALSE, dir |-> None, path |-> path,
     primary |-> primary, ntick |-> n, starts |-> 0]

create_job(js, job) == Append(js, job)

\* a start that also runs the command of a deleted job
start_on_gone(js, id, dir) ==
    IF js[id].state = "Running" THEN js
    ELSE [js EXCEPT ![id].state = "Running", ![id].status = "None",
                    ![id].dir = Some(dir), ![id].starts = @ + 1]

\* job.start() with the working directory dir: nothing on a deleted job or
\* on one whose command is running
start(js, id, dir) ==
    IF js[id].gone \/ js[id].state = "Running" THEN js
    ELSE [js EXCEPT ![id].state = "Running", ![id].status = "None",
                    ![id].dir = Some(dir), ![id].starts = @ + 1]

\* a delete that marks the job and leaves its command running
delete_keep_running(js, id) == [js EXCEPT ![id].gone = TRUE]

\* job.delete_now(): stop the command if it runs, and the job is gone
delete_now(js, id) ==
    IF js[id].gone THEN js
    ELSE [js EXCEPT ![id].gone = TRUE,
                    ![id].state = IF @ = "Running" THEN "Finished" ELSE @,
                    ![id].status = IF js[id].state = "Running" THEN "Killed"
                                   ELSE @]

\* job.is_dead()
is_dead(js, id) == js[id].gone

\* action.list_jobs(): the ids of the jobs the worker tracks
list_jobs(js) == {id \in DOMAIN js : ~js[id].gone}

\* a sweep over the primary jobs only
delete_primary_only(js, extant) ==
    [id \in DOMAIN js |->
        IF id \in extant /\ js[id].kind = "primary"
        THEN [js[id] EXCEPT !.gone = TRUE,
                            !.state = IF @ = "Running" THEN "Finished" ELSE @,
                            !.status = IF js[id].state = "Running"
                                       THEN "Killed" ELSE @]
        ELSE js[id]]

\* action.list_jobs().for_each(|(_, job)| job.delete_now())
delete_all(js, extant) ==
    [id \in DOMAIN js |-> IF id \in extant THEN delete_now(js, id)[id]
                          ELSE js[id]]

---------------------------------------------------------------------------
(* The batches delivered to on_action *)

TickPaths == {PathA, PathB, ThenPath, PathLink, PathHidden, PathRoot,
              PathGone}

TickBatches ==
    {<<Event(Some(k), <<p>>)>> : k \in {KindContent, KindRename},
                                 p \in TickPaths}
    \cup {<<Event(Some(KindContent), <<PathRoot, PathA>>)>>,
          <<Event(Some(KindContent), <<PathRoot>>),
            Event(Some(KindContent), <<PathB>>)>>}

---------------------------------------------------------------------------
(* Initial state *)

IdleTick == [pc |-> "idle", extant |-> {}, job |-> 0]

Init ==
    /\ raw_then_path \in {None, Some(ThenPath)}
    /\ events = << >>
    /\ interrupt = FALSE
    /\ details = None
    /\ cwd = initial_dir
    /\ jobs = << >>
    /\ tasks = << >>
    /\ tick = IdleTick
    /\ control = "Continue"
    /\ nticks = 0
    /\ target_tick = 0

\* the process runs: no action.quit() and no panic so far
Alive == control = "Continue"

---------------------------------------------------------------------------
(* on_action: one tick, in the steps of the handler *)

\* the interrupt check left out
InterruptedNever(sig) == FALSE

\* action.signals().any(|sig| sig == Signal::Interrupt)
Interrupted(sig) == sig

\* the handler goes on whatever get_command returned
ProceedsAlways(d) == TRUE

\* if let Some(details) = get_command(..) { .. }
Proceeds(d) == IsSome(d)

\* the handler is entered with a batch: the interrupt check and get_command
TickBegin(batch, sig) ==
    /\ Alive
    /\ tick.pc = "idle"
    /\ nticks < MaxTicks
    /\ events' = batch
    /\ interrupt' = sig
    /\ nticks' = nticks + 1
    /\ IF Interrupted(sig)
       THEN /\ control' = "Quit"
            /\ UNCHANGED <<details, tick, target_tick>>
       ELSE LET d == get_command(batch, raw_then_path)
            IN  /\ details' = d
                /\ control' = IF d = Panic THEN "Panicked" ELSE control
                /\ tick' = IF d # Panic /\ Proceeds(d)
                           THEN [pc |-> "cd_initial",
                                 extant |-> list_jobs(jobs), job |-> 0]
                           ELSE tick
                /\ target_tick' = IF IsSome(d) THEN nticks + 1
                                  ELSE target_tick
    /\ UNCHANGED <<raw_then_path, cwd, jobs, tasks>>

\* the delete sweep moved in front of the directory changes
TickSweepThenCdInitial(ok) ==
    /\ Alive
    /\ tick.pc = "cd_initial"
    /\ jobs' = delete_all(jobs, tick.extant)
    /\ IF ok
       THEN cwd' = initial_dir /\ tick' = [tick EXCEPT !.pc = "cd_target"]
       ELSE cwd' = cwd /\ tick' = IdleTick
    /\ UNCHANGED <<raw_then_path, events, interrupt, details, tasks,
                   control, nticks, target_tick>>

\* std::env::set_current_dir(payload.initial_dir)
TickCdInitial(ok) ==
    /\ Alive
    /\ tick.pc = "cd_initial"
    /\ IF ok
       THEN cwd' = initial_dir /\ tick' = [tick EXCEPT !.pc = "cd_target"]
       ELSE cwd' = cwd /\ tick' = IdleTick
    /\ UNCHANGED <<raw_then_path, events, interrupt, details, jobs, tasks,
                   control, nticks, target_tick>>

\* if let Some(cd_to) = details.0 { std::env::set_current_dir(cd_to) }
TickCdTarget(ok) ==
    /\ Alive
    /\ tick.pc = "cd_target"
    /\ IF ~IsSome(details.val.cd_to)
       THEN cwd' = cwd /\ tick' = [tick EXCEPT !.pc = "sweep"]
       ELSE IF ok
       THEN /\ cwd' = details.val.cd_to.val
            /\ tick' = [tick EXCEPT !.pc = "sweep"]
       ELSE cwd' = cwd /\ tick' = IdleTick
    /\ UNCHANGED <<raw_then_path, events, interrupt, details, jobs, tasks,
                   control, nticks, target_tick>>

\* action.list_jobs().for_each(delete_now)
TickSweep ==
    /\ Alive
    /\ tick.pc = "sweep"
    /\ jobs' = delete_all(jobs, tick.extant)
    /\ tick' = [tick EXCEPT !.pc = "start"]
    /\ UNCHANGED <<raw_then_path, events, interrupt, details, cwd, tasks,
                   control, nticks, target_tick>>

\* let (id, job) = action.create_job(details.1); job.start();
TickStart ==
    /\ Alive
    /\ tick.pc = "start"
    /\ LET id == Len(jobs) + 1
           created == create_job(jobs,
                          NewJob("primary", details.val.command,
                                 select_path(events).val, 0, nticks))
       IN  /\ jobs' = start(created, id, cwd)
           /\ tick' = [tick EXCEPT !.pc = "then", !.job = id]
    /\ UNCHANGED <<raw_then_path, events, interrupt, details, cwd, tasks,
                   control, nticks, target_tick>>

\* if details.2 { if let Some(then_job) = payload.then_job() {
\*     create_job(then_job); tokio::spawn(..) } }
TickThen ==
    /\ Alive
    /\ tick.pc = "then"
    /\ IF details.val.run_then /\ IsSome(then_job(raw_then_path))
       THEN LET then_run == Len(jobs) + 1
            IN  /\ jobs' = create_job(jobs,
                               NewJob("then", then_job(raw_then_path).val,
                                      raw_then_path.val, tick.job, nticks))
                /\ tasks' = tasks @@ (tick.job :>
                               [pc |-> "to_wait", then_run |-> then_run,
                                cd |-> "none"])
       ELSE UNCHANGED <<jobs, tasks>>
    /\ tick' = IdleTick
    /\ UNCHANGED <<raw_then_path, events, interrupt, details, cwd, control,
                   nticks, target_tick>>

---------------------------------------------------------------------------
(* The chain task: tokio::spawn(async move { .. }) *)

\* job.to_wait().await resolves: the command has ended, or the job is gone
ChainWake(p) ==
    /\ Alive
    /\ p \in DOMAIN tasks
    /\ tasks[p].pc = "to_wait"
    /\ jobs[p].state = "Finished" \/ jobs[p].gone
    /\ tasks' = [tasks EXCEPT ![p].pc = "is_dead"]
    /\ UNCHANGED <<raw_then_path, events, interrupt, details, cwd, jobs,
                   tick, control, nticks, target_tick>>

\* if !job.is_dead() { job.run(..) }
ChainIsDead(p) ==
    /\ Alive
    /\ p \in DOMAIN tasks
    /\ tasks[p].pc = "is_dead"
    /\ tasks' = [tasks EXCEPT
                   ![p].pc = IF is_dead(jobs, p) THEN "done" ELSE "run"]
    /\ UNCHANGED <<raw_then_path, events, interrupt, details, cwd, jobs,
                   tick, control, nticks, target_tick>>

\* the status of the finished command left out
FinishedAny(job) == job.state = "Finished"

\* the closure goes on to then_cd: CommandState::Finished with
\* ProcessEnd::Success
FinishedSuccess(job) == job.state = "Finished" /\ job.status = "Success"

\* job.run(closure): the job's task calls the closure unless the job is gone
ChainRun(p) ==
    /\ Alive
    /\ p \in DOMAIN tasks
    /\ tasks[p].pc = "run"
    /\ tasks' = [tasks EXCEPT
                   ![p].pc = IF ~jobs[p].gone /\ FinishedSuccess(jobs[p])
                             THEN "then_cd_initial" ELSE "done"]
    /\ UNCHANGED <<raw_then_path, events, interrupt, details, cwd, jobs,
                   tick, control, nticks, target_tick>>

\* then_cd: std::env::set_current_dir(initial_dir)?
ChainCdInitial(p, ok) ==
    /\ Alive
    /\ p \in DOMAIN tasks
    /\ tasks[p].pc = "then_cd_initial"
    /\ IF ok
       THEN /\ cwd' = initial_dir
            /\ tasks' = [tasks EXCEPT ![p].pc = "then_cd_parent"]
       ELSE /\ cwd' = cwd
            /\ tasks' = [tasks EXCEPT ![p].pc = "done", ![p].cd = "Err"]
    /\ UNCHANGED <<raw_then_path, events, interrupt, details, jobs, tick,
                   control, nticks, target_tick>>

\* the result of then_cd dropped: let _ = payload.then_cd();
AfterThenCdIgnored(ok) == "start"

\* what the closure does with the result of then_cd: on Ok it starts the
\* then job
AfterThenCd(ok) == IF ok THEN "start" ELSE "done"

\* then_cd: if let Some(parent_dir) = .. { set_current_dir(parent_dir)? }
ChainCdParent(p, ok) ==
    /\ Alive
    /\ p \in DOMAIN tasks
    /\ tasks[p].pc = "then_cd_parent"
    /\ LET par == then_parent(raw_then_path)
           done == ~IsSome(par) \/ ok
       IN  /\ cwd' = IF IsSome(par) /\ ok THEN par.val ELSE cwd
           /\ tasks' = [tasks EXCEPT ![p].pc = AfterThenCd(done),
                                     ![p].cd = IF done THEN "Ok" ELSE "Err"]
    /\ UNCHANGED <<raw_then_path, events, interrupt, details, jobs, tick,
                   control, nticks, target_tick>>

\* then_run.start()
ChainStart(p) ==
    /\ Alive
    /\ p \in DOMAIN tasks
    /\ tasks[p].pc = "start"
    /\ jobs' = start(jobs, tasks[p].then_run, cwd)
    /\ tasks' = [tasks EXCEPT ![p].pc = "done"]
    /\ UNCHANGED <<raw_then_path, events, interrupt, details, cwd, tick,
                   control, nticks, target_tick>>

---------------------------------------------------------------------------
(* The process executor: a running command ends by itself *)

JobFinish(id, status) ==
    /\ Alive
    /\ id \in DOMAIN jobs
    /\ jobs[id].state = "Running"
    /\ jobs' = [jobs EXCEPT ![id].state = "Finished", ![id].status = status]
    /\ UNCHANGED <<raw_then_path, events, interrupt, details, cwd, tasks,
                   tick, control, nticks, target_tick>>

---------------------------------------------------------------------------
(* Specifications *)

JobIds == 1..(2 * MaxTicks)

Next ==
    \/ \E batch \in TickBatches, sig \in BOOLEAN : TickBegin(batch, sig)
    \/ \E ok \in BOOLEAN : TickCdInitial(ok)
    \/ \E ok \in BOOLEAN : TickCdTarget(ok)
    \/ TickSweep
    \/ TickStart
    \/ TickThen
    \/ \E p \in JobIds : ChainWake(p)
    \/ \E p \in JobIds : ChainIsDead(p)
    \/ \E p \in JobIds : ChainRun(p)
    \/ \E p \in JobIds, ok \in BOOLEAN : ChainCdInitial(p, ok)
    \/ \E p \in JobIds, ok \in BOOLEAN : ChainCdParent(p, ok)
    \/ \E p \in JobIds : ChainStart(p)
    \/ \E id \in JobIds, status \in {"Success", "ExitError"} :
           JobFinish(id, status)

Spec == Init /\ [][Next]_vars

\* tokio runs every spawned task that can take a step; batches and the end
\* of a command come from outside and are not forced
ChainStep ==
    \/ \E p \in JobIds : ChainWake(p)
    \/ \E p \in JobIds : ChainIsDead(p)
    \/ \E p \in JobIds : ChainRun(p)
    \/ \E p \in JobIds : ChainCdInitial(p, TRUE)
    \/ \E p \in JobIds : ChainCdParent(p, TRUE)
    \/ \E p \in JobIds : ChainStart(p)

SpecLive == Spec /\ WF_vars(ChainStep)

(* get_command on its own: a batch is assembled tag by tag and get_command  *)
(* is applied to every batch assembled.                                     *)
TagCount(evs) ==
    LET RECURSIVE count(_)
        count(s) == IF s = << >> THEN 0
                    ELSE 1 + Len(Head(s).paths) + count(Tail(s))
    IN  count(evs)

FilterAddEvent(k) ==
    /\ TagCount(events) < MaxTags
    /\ events' = Append(events, Event(k, << >>))
    /\ details' = get_command(events', raw_then_path)
    /\ UNCHANGED <<raw_then_path, interrupt, cwd, jobs, tasks, tick, control,
                   nticks, target_tick>>

FilterAddPath(p) ==
    /\ TagCount(events) < MaxTags
    /\ events # << >>
    /\ events' = [events EXCEPT ![Len(events)].paths = Append(@, p)]
    /\ details' = get_command(events', raw_then_path)
    /\ UNCHANGED <<raw_then_path, interrupt, cwd, jobs, tasks, tick, control,
                   nticks, target_tick>>

NextFilter ==
    \/ \E k \in KindOpts : FilterAddEvent(k)
    \/ \E p \in Paths : FilterAddPath(p)

SpecFilter == Init /\ [][NextFilter]_vars

---------------------------------------------------------------------------
(* Properties of get_command, under SpecFilter *)

\* The reference selection: the positions (event, path tag) of the batch whose
\* event is a content modification and whose path is executable, has no
\* hidden component and no "~"-suffixed file name.
RefQualifies(path) ==
    /\ is_executable(path) = "Ok(true)"
    /\ \A i \in DOMAIN path : path[i][1] # "."
    /\ path = << >> \/ path[Len(path)][Len(path[Len(path)])] # "~"

RefPositions(evs) ==
    {pos \in (DOMAIN evs) \X (1..MaxTags) :
        /\ evs[pos[1]].kind = Some(KindContent)
        /\ pos[2] \in DOMAIN evs[pos[1]].paths
        /\ RefQualifies(evs[pos[1]].paths[pos[2]])}

RefBefore(a, b) == a[1] < b[1] \/ (a[1] = b[1] /\ a[2] <= b[2])

\* the first qualifying position in delivery order
RefFirst(evs) ==
    CHOOSE pos \in RefPositions(evs) :
        \A other \in RefPositions(evs) : RefBefore(pos, other)

RefFirstPath(evs) == evs[RefFirst(evs)[1]].paths[RefFirst(evs)[2]]

\* the path a target stands for: its directory and the name it invokes
TargetPath(target) ==
    Append(target.cd_to.val, SubSeq(target.command, 3, Len(target.command)))

C10_NoContentNoTarget ==
    (\A i \in DOMAIN events : events[i].kind # Some(KindContent))
        => details = None

\* a rename and a creation of qualifying paths, and no target
C10_Witness ==
    /\ Len(events) = 2
    /\ events[1] = Event(Some(KindRename), <<PathA>>)
    /\ events[2] = Event(Some(KindCreate), <<PathB>>)
    /\ details = None

---------------------------------------------------------------------------
(* Properties of on_action and the chain task, under Spec *)

Primaries == {id \in DOMAIN jobs : jobs[id].kind = "primary"}

Thens == {id \in DOMAIN jobs : jobs[id].kind = "then"}

Live(id) == jobs[id].state = "Running"

\* the step of a tick that creates and starts the primary job
StartStep == tick.pc = "start" /\ tick'.pc = "then"

\* the step that ends a tick which started a primary job
EndStep == tick.pc = "then" /\ tick'.pc = "idle"

\* the step in which a batch is delivered
DeliveryStep == nticks' = nticks + 1

\* C1: when a tick starts its primary job, every job that existed before is
\* force-stopped already (deleted, its command not running), the step starts
\* exactly one job, which runs "./<file name>" of the selected path in the
\* path's directory, and when the tick ends that job is the only job of the
\* tick that was started.
C1_ReplaceAndStart ==
    [][/\ StartStep =>
            /\ \A id \in DOMAIN jobs : jobs[id].gone /\ ~Live(id)
            /\ Len(jobs') = Len(jobs) + 1
            /\ \A id \in DOMAIN jobs : jobs'[id] = jobs[id]
            /\ LET new == jobs'[Len(jobs')]
                   p == select_path(events).val
               IN  /\ new.state = "Running" /\ ~new.gone
                   /\ new.command = <<".", "/">> \o p[Len(p)]
                   /\ new.kind = "primary"
       /\ EndStep =>
            {id \in DOMAIN jobs' :
                jobs'[id].ntick = nticks /\ jobs'[id].starts > 0} = {tick.job}
      ]_vars

\* a tick has started its job after stopping a running then job and a
\* primary job
C1_Witness ==
    /\ tick.pc = "then"
    /\ Live(tick.job)
    /\ \E id \in Thens : jobs[id].status = "Killed"

\* at most one primary job and at most one then job are running
LiveBound ==
    /\ Cardinality({id \in Primaries : Live(id)}) <= 1
    /\ Cardinality({id \in Thens : Live(id)}) <= 1

\* C2: in every reachable state at most one primary job and at most one then
\* job are running, and right after a tick has started its job that job is
\* the one job running.
C2_AtMostOneLive ==
    /\ []LiveBound
    /\ [][StartStep =>
            {id \in DOMAIN jobs' : jobs'[id].state = "Running"}
                = {Len(jobs')}]_vars

\* the same target twice: the first job was stopped, the second is the one
\* job running
C2_Witness ==
    /\ tick.pc = "idle"
    /\ \E a, b \in Primaries :
          /\ a < b
          /\ jobs[a].path = jobs[b].path
          /\ jobs[a].status = "Killed"
          /\ {id \in DOMAIN jobs : Live(id)} = {b}

\* C3: a then job that was started belongs to a chain task whose primary job
\* finished successfully and whose then_cd succeeded.
C3_ThenOnlyAfterSuccess ==
    \A x \in Thens :
        jobs[x].starts > 0 =>
            /\ jobs[jobs[x].primary].state = "Finished"
            /\ jobs[jobs[x].primary].status = "Success"
            /\ tasks[jobs[x].primary].cd = "Ok"

\* a then job runs after its primary job succeeded; another chain ended
\* without a start because its primary job failed
C3_Witness ==
    /\ \E x \in Thens : Live(x) /\ jobs[jobs[x].primary].status = "Success"
    /\ \E p \in DOMAIN tasks :
          /\ jobs[p].status = "ExitError"
          /\ tasks[p].pc = "done"
          /\ jobs[tasks[p].then_run].starts = 0

\* the tick that created job id has gone through its chain scheduling
Scheduled(id) == ~(tick.pc = "then" /\ tick.job = id)

\* C5: a primary job has a chain task (and a then job created for it) exactly
\* when a then path is configured and differs from the canonical path of the
\* job's script; without a then path there is no chain task at all; a primary
\* job whose script is the then script is started once and has no then job.
C5_ChainIffNotThenScript ==
    /\ \A id \in Primaries :
          Scheduled(id) =>
            /\ (id \in DOMAIN tasks) <=>
                  (raw_then_path # None
                   /\ canonicalize(jobs[id].path) # raw_then_path)
            /\ (\E x \in Thens : jobs[x].primary = id) <=> (id \in DOMAIN tasks)
            /\ jobs[id].starts = 1
    /\ DOMAIN tasks \subseteq Primaries
    /\ raw_then_path = None => tasks = << >> /\ Thens = {}

\* the then script itself (reached through a symlink) ran to success as a
\* primary job, and no chain task or then job exists for it
C5_Witness ==
    /\ raw_then_path = Some(ThenPath)
    /\ tick.pc = "idle"
    /\ \E id \in Primaries :
          /\ jobs[id].path = PathLink
          /\ jobs[id].status = "Success"
          /\ id \notin DOMAIN tasks
    /\ \E id \in Primaries : id \in DOMAIN tasks

C7_InertTick ==
    [][(/\ DeliveryStep
        /\ ~interrupt'
        /\ get_command(events', raw_then_path) = None)
          => /\ jobs' = jobs
             /\ tasks' = tasks
             /\ cwd' = cwd
             /\ tick'.pc = "idle"
             /\ control' = "Continue"]_vars

\* a rename of the script that is running was delivered and its job runs on
C7_Witness ==
    /\ ~interrupt
    /\ control = "Continue"
    /\ events = <<Event(Some(KindRename), <<PathA>>)>>
    /\ \E id \in Primaries : Live(id) /\ jobs[id].path = PathA

\* C8: a batch with an interrupt makes the decision Quit and does nothing
\* else: get_command is not run, and the working directory, the jobs, the
\* chain tasks and the handler's position stay as they are.
C8_InterruptQuits ==
    [][(DeliveryStep /\ interrupt')
          => /\ control' = "Quit"
             /\ UNCHANGED <<details, cwd, jobs, tasks, tick, target_tick>>
      ]_vars

\* an interrupt came with a content change that would have selected the
\* other script: the running job is untouched
C8_Witness ==
    /\ control = "Quit"
    /\ interrupt
    /\ IsSome(get_command(events, raw_then_path))
    /\ \E id \in Primaries : Live(id) /\ <<jobs[id].path>> # events[1].paths

---------------------------------------------------------------------------
(* Chaining, under SpecLive *)

\* a batch that yielded a target was delivered after job id was created
Superseded(id) == id \in DOMAIN jobs /\ target_tick > jobs[id].ntick

\* the chain task of primary job p has started its then job
ThenStarted(p) == p \in DOMAIN tasks /\ jobs[tasks[p].then_run].starts > 0

\* the step in which then job x is started
ThenStartStep(x) == jobs[x].starts = 0 /\ jobs'[x].starts > 0

\* a primary job with a chain task succeeded: unless then_cd fails, a new
\* target arrives or the process ends, its then job is eventually started
C4_EventuallyStarted ==
    \A p \in JobIds :
        (p \in DOMAIN tasks /\ FinishedSuccess(jobs[p]))
            ~> (\/ ThenStarted(p)
                \/ (p \in DOMAIN tasks /\ tasks[p].cd = "Err")
                \/ Superseded(p)
                \/ ~Alive)

\* a then job is started at most once
C4_StartedOnce == \A x \in Thens : jobs[x].starts <= 1

\* a then job whose primary job is not superseded is started in the parent
\* directory of the then script
C4_StartedInThenDir ==
    \A x \in Thens :
        (ThenStartStep(x) /\ ~Superseded(jobs[x].primary))
            => cwd = then_parent(raw_then_path).val

\* C4: when a chain task was scheduled for a primary job, the job ends
\* successfully, then_cd succeeds and no new target arrives in between, the
\* then job is eventually started, once, in the then script's parent
\* directory.
C4_ChainingCorrect ==
    /\ C4_EventuallyStarted
    /\ []C4_StartedOnce
    /\ [][C4_StartedInThenDir]_vars

\* the parts of C4 that do not depend on the working directory
C4_StartedEventuallyOnce == C4_EventuallyStarted /\ []C4_StartedOnce

---------------------------------------------------------------------------
(* The working directory and error handling, under Spec *)

\* the directory a job is meant to be started in
MeantDir(id) ==
    IF jobs[id].kind = "primary" THEN parent(jobs[id].path)
    ELSE then_parent(raw_then_path)

\* C11: every primary job is started with the working directory equal to the
\* directory of its script and every then job with the working directory
\* equal to the parent directory of the then script, whatever the
\* interleaving of the handler and the chain tasks.
C11_StartedInOwnDir ==
    \A id \in DOMAIN jobs : jobs[id].starts > 0 => jobs[id].dir = MeantDir(id)

\* C12: the main loop ends only by an interrupt: whatever a batch without an
\* interrupt contains and whatever the filesystem answers, the handler
\* returns and the loop goes on.
C12_OnlyInterruptEndsLoop ==
    control = "Continue" \/ (control = "Quit" /\ interrupt)

\* a step of the handler that runs one of its two directory changes
CdStep == tick.pc \in {"cd_initial", "cd_target"} /\ tick' # tick

\* a directory change of the handler fails and the handler returns
FailedCdStep == CdStep /\ tick'.pc = "idle"

\* C13: a tick one of whose directory changes fails leaves the jobs alone:
\* from the delivery of the batch to the failed change the handler deletes,
\* creates and starts no job and schedules no chain task, no job of that tick
\* exists when the handler returns, and a job that was running still runs.
C13_FailedCdAborts ==
    [][/\ (DeliveryStep \/ CdStep) => jobs' = jobs /\ tasks' = tasks
       /\ FailedCdStep =>
            /\ \A id \in DOMAIN jobs' : jobs'[id].ntick # nticks
            /\ \A id \in DOMAIN jobs : Live(id) => jobs'[id].state = "Running"
      ]_vars

\* the second tick selected a target and returned at a failed directory
\* change: the job of the first tick is still running
C13_Witness ==
    /\ tick.pc = "idle" /\ control = "Continue"
    /\ nticks = 2 /\ target_tick = 2
    /\ \A id \in DOMAIN jobs : jobs[id].ntick = 1
    /\ \E id \in Primaries : Live(id)

---------------------------------------------------------------------------
(* The jobs at the start of a then job and around the sweep, under Spec *)

Running(js) == {id \in DOMAIN js : js[id].state = "Running"}

AfterSweepStep == tick.pc = "start" /\ tick'.pc = "start"

\* C15: between the delete sweep of a tick and the start of the tick's job
\* no job is created or started, and a job is deleted by the sweep of a tick
\* only, which deletes no job created after that tick was delivered.
C15_AtomicReplacement ==
    [][/\ AfterSweepStep =>
            /\ Len(jobs') = Len(jobs)
            /\ \A id \in DOMAIN jobs : jobs'[id].starts = jobs[id].starts
       /\ \A id \in DOMAIN jobs :
            (~jobs[id].gone /\ jobs'[id].gone) =>
                /\ tick.pc = "sweep" /\ tick'.pc = "start"
                /\ id \in tick.extant
                /\ jobs[id].ntick < nticks
      ]_vars

\* a chain task called start on its then job between the sweep of the second
\* tick and the start of that tick's job: the then job was not started
C15_Witness ==
    /\ tick.pc = "start"
    /\ \E p \in DOMAIN tasks :
          /\ tasks[p].pc = "done" /\ tasks[p].cd = "Ok"
          /\ jobs[tasks[p].then_run].gone
          /\ jobs[tasks[p].then_run].starts = 0

---------------------------------------------------------------------------
(* A path without a file name, under SpecFilter *)

\* the qualifying positions whose path has a file name
NamedPositions(evs) ==
    {pos \in RefPositions(evs) :
        IsSome(file_name(evs[pos[1]].paths[pos[2]]))}

\* the first of them in delivery order
FirstNamed(evs) ==
    CHOOSE pos \in NamedPositions(evs) :
        \A other \in NamedPositions(evs) : RefBefore(pos, other)

\* C16: when the first qualifying path of a batch has no file name and a
\* later path qualifies and has one, get_command returns the target of that
\* later path and not nothing.
C16_NoNameSkipped ==
    (/\ RefPositions(events) # {}
     /\ ~IsSome(file_name(RefFirstPath(events)))
     /\ NamedPositions(events) # {})
        => /\ IsSome(details)
           /\ IsSome(details.val.cd_to)
           /\ TargetPath(details.val) =
                 events[FirstNamed(events)[1]].paths[FirstNamed(events)[2]]

---------------------------------------------------------------------------
(* The number of running and of tracked jobs, under Spec *)

\* C17: in every reachable state at most one job is running, so that a
\* primary job and a then job never run at the same time.
C17_OneSubprocess ==
    /\ Cardinality(Running(jobs)) <= 1
    /\ ~ \E a \in Primaries, x \in Thens : Live(a) /\ Live(x)

\* the then job of the first tick was stopped by the second tick, whose
\* primary job succeeded and whose then job is running
C17_Witness ==
    \E x, y \in Thens :
        /\ jobs[x].status = "Killed"
        /\ jobs[jobs[y].primary].status = "Success"
        /\ Running(jobs) = {y}

\* C18: in every reachable state at most two jobs are tracked: a primary job
\* and the then job created at the same tick; the then jobs of earlier ticks
\* are deleted once a later tick has made its job.
C18_TrackedBound ==
    /\ Cardinality(list_jobs(jobs)) <= 2
    /\ \A a, b \in list_jobs(jobs) :
          a < b => /\ jobs[a].kind = "primary" /\ jobs[b].kind = "then"
                   /\ jobs[b].primary = a
    /\ \A x \in Thens, id \in DOMAIN jobs :
          jobs[x].ntick < jobs[id].ntick => jobs[x].gone

\* the second tick made two jobs, and the two jobs of the first tick, the
\* unstarted then job among them, are deleted
C18_Witness ==
    /\ Len(jobs) = 4
    /\ list_jobs(jobs) = {3, 4}
    /\ jobs[2].kind = "then" /\ jobs[2].starts = 0 /\ jobs[2].gone

====
